---- MODULE Spec2Model ----
(***************************************************************************)
(* Swing-reversion grid strategy (your_strategy.py) and its backtest       *)
(* driver (backtest_runner.py).                                            *)
(*                                                                         *)
(* Numbers.  The program computes in binary floating point (Python float), *)
(* and so does the model: every arithmetic operation rounds as IEEE 754    *)
(* binary64 does, and a decimal literal of the source (0.01, 0.275, ...)   *)
(* is the float nearest to it.  Prices are drawn from integers.            *)
(***************************************************************************)
EXTENDS Integers, Sequences, FiniteSets, TLC

VARIABLES
    data,          \* df['Close']: the whole price series, fixed for a run
    pc,            \* position of run_backtest: "loop", "report", "done", "fault"
    current_idx,   \* exchange.current_idx / the loop variable i (0-based)
    cash,          \* portfolio.cash
    quantity,      \* portfolio.quantity
    trades,        \* the trades list of run_backtest
    equity_curve,  \* the equity_curve list of run_backtest
    report,        \* what section 4 of run_backtest computed
    heap,          \* Python list objects: list id -> sequence of lots
    strategy,      \* engine name -> [active_positions: list id, trailing_high]
    state,         \* the mapping returned by the latest get_state (or NoState)
    market,        \* the MarketSnapshot of the latest generate_signal call
    last,          \* the latest call: its inputs, its result, the state before it
    hist           \* per engine, the calls made since the state was imported

vars == <<data, pc, current_idx, cash, quantity, trades, equity_curve, report,
          heap, strategy, state, market, last, hist>>

-----------------------------------------------------------------------------
(* Python float arithmetic.  A float is IEEE 754 binary64; every +, -, *, /  *)
(* of the source rounds the exact result to the nearest value with a 53-bit  *)
(* significand, ties to even.  A float is modelled as                        *)
(*     [s |-> sign (1 or -1), m |-> significand, e |-> exponent]             *)
(* denoting s * m * 2^e, with m an odd natural number (or m = 0, s = 1,      *)
(* e = 0 for zero), so that equal numbers are equal values.  The significand *)
(* is a natural number of any size, held as its digits in base 2^14, least   *)
(* significant first, without leading zeros (<<>> is 0).  The values of the  *)
(* program stay far from the largest and the smallest binary64 magnitudes,   *)
(* so the exponent is not bounded here.                                      *)
(*                                                                           *)
(* An operator is evaluated with its arguments unevaluated, and each use of  *)
(* a parameter evaluates the argument again.  A value that is used several   *)
(* times is therefore bound by a quantifier first:                           *)
(*     CHOOSE r \in {F(x) : x \in {v}} : TRUE     is F(v).                   *)

Base == 16384
LimbBits == 14
Precision == 53

Abs(x) == IF x < 0 THEN -x ELSE x
Max(a, b) == IF a > b THEN a ELSE b
Min(a, b) == IF a < b THEN a ELSE b

\* digit k of a, 0 beyond its length
Limb(a, k) == IF k >= 1 /\ k <= Len(a) THEN a[k] ELSE 0

\* the position of the highest non-zero digit of a among 1..k, 0 if none
RECURSIVE BTop(_, _)
BTop(a, k) == IF k = 0 THEN 0 ELSE IF a[k] # 0 THEN k ELSE BTop(a, k - 1)

\* a without leading zero digits
BTrim(a) == CHOOSE r \in {SubSeq(x, 1, BTop(x, Len(x))) : x \in {a}} : TRUE

RECURSIVE BFromInt(_)
BFromInt(k) == IF k = 0 THEN <<>> ELSE <<k % Base>> \o BFromInt(k \div Base)

RECURSIVE BToIntFrom(_, _)
BToIntFrom(a, k) == IF k > Len(a) THEN 0 ELSE a[k] + Base * BToIntFrom(a, k + 1)

BToInt(a) == CHOOSE r \in {BToIntFrom(x, 1) : x \in {a}} : TRUE

\* the number of bits of x, 0 <= x < Base
IntBitLen(x) ==
    IF x < 128
    THEN IF x < 8 THEN (IF x < 2 THEN x ELSE IF x < 4 THEN 2 ELSE 3)
         ELSE IF x < 32 THEN (IF x < 16 THEN 4 ELSE 5)
         ELSE IF x < 64 THEN 6 ELSE 7
    ELSE IF x < 2048
         THEN IF x < 512 THEN (IF x < 256 THEN 8 ELSE 9)
              ELSE IF x < 1024 THEN 10 ELSE 11
         ELSE IF x < 4096 THEN 12
         ELSE IF x < 8192 THEN 13 ELSE 14

\* the number of trailing zero bits of x > 0
RECURSIVE IntTrailingZeros(_)
IntTrailingZeros(x) == IF x % 2 = 1 THEN 0 ELSE 1 + IntTrailingZeros(x \div 2)

BBitLen(a) == IF a = <<>> THEN 0 ELSE LimbBits * (Len(a) - 1) + IntBitLen(a[Len(a)])

\* a compared with b, digit by digit from the top: -1, 0, 1
RECURSIVE BCmpFrom(_, _, _)
BCmpFrom(a, b, k) ==
    IF k = 0 THEN 0
    ELSE IF a[k] < b[k] THEN -1
    ELSE IF a[k] > b[k] THEN 1
    ELSE BCmpFrom(a, b, k - 1)

BCmp(a, b) ==
    IF Len(a) < Len(b) THEN -1
    ELSE IF Len(a) > Len(b) THEN 1
    ELSE BCmpFrom(a, b, Len(a))

\* the digits of a sequence of column sums c: digit k is c[k] plus the carry
\* of the digits below it, modulo Base
RECURSIVE BCarryFrom(_, _, _)
BCarryFrom(c, k, carry) ==
    IF k > Len(c) THEN BFromInt(carry)
    ELSE CHOOSE r \in {<<t % Base>> \o BCarryFrom(c, k + 1, t \div Base) :
                       t \in {c[k] + carry}} : TRUE

BAdd(a, b) ==
    CHOOSE r \in {BCarryFrom(c, 1, 0) :
                  c \in {[k \in 1..Max(Len(a), Len(b)) |-> Limb(a, k) + Limb(b, k)]}} : TRUE

\* a - b for a >= b
RECURSIVE BSubFrom(_, _, _, _)
BSubFrom(a, b, k, borrow) ==
    IF k > Len(a) THEN <<>>
    ELSE CHOOSE r \in {IF t < 0 THEN <<t + Base>> \o BSubFrom(a, b, k + 1, 1)
                       ELSE <<t>> \o BSubFrom(a, b, k + 1, 0) :
                       t \in {a[k] - Limb(b, k) - borrow}} : TRUE

BSub(a, b) == BTrim(BSubFrom(a, b, 1, 0))

\* a * d for one digit d
BMulSmall(a, d) ==
    IF d = 0 THEN <<>>
    ELSE CHOOSE r \in {BCarryFrom(c, 1, 0) : c \in {[k \in 1..Len(a) |-> a[k] * d]}} : TRUE

\* column j of the product a * b: the sum of a[i] * b[j - i + 1] for i >= k
RECURSIVE BColumn(_, _, _, _)
BColumn(a, b, j, k) ==
    IF k > Len(a) \/ k > j THEN 0
    ELSE a[k] * Limb(b, j - k + 1) + BColumn(a, b, j, k + 1)

\* a * b for a and b of at most 7 digits
BMul(a, b) ==
    CHOOSE r \in {BCarryFrom(c, 1, 0) :
                  c \in {[j \in 1..(Len(a) + Len(b) - 1) |-> BColumn(a, b, j, 1)]}} : TRUE

\* a * 2^n for a > 0
BShl(a, n) ==
    IF n = 0 THEN a
    ELSE LET q == n \div LimbBits
             r == n % LimbBits
             p == 2^r
             t == 2^(LimbBits - r)
             len == Len(a) + q + (IF a[Len(a)] \div t = 0 THEN 0 ELSE 1)
         IN  [k \in 1..len |-> IF k <= q THEN 0
                               ELSE (Limb(a, k - q) % t) * p + Limb(a, k - q - 1) \div t]

\* a \div 2^n for a > 0
BShr(a, n) ==
    IF n = 0 THEN a
    ELSE LET q == n \div LimbBits
             r == n % LimbBits
             p == 2^r
             t == 2^(LimbBits - r)
             len == Len(a) - q - (IF a[Len(a)] \div p = 0 THEN 1 ELSE 0)
         IN  [k \in 1..len |-> (a[k + q] \div p) + (Limb(a, k + q + 1) % p) * t]

\* bit j of a (bit 0 is the lowest)
BTestBit(a, j) == (Limb(a, j \div LimbBits + 1) \div 2^(j % LimbBits)) % 2 = 1

\* some bit of a below bit n is set
BLowBitsSet(a, n) ==
    LET q == n \div LimbBits
        r == n % LimbBits
    IN  \/ \E k \in 1..Min(q, Len(a)) : a[k] # 0
        \/ Limb(a, q + 1) % 2^r # 0

\* the number of trailing zero bits of a > 0
RECURSIVE BTrailingZerosFrom(_, _)
BTrailingZerosFrom(a, k) ==
    IF a[k] = 0 THEN LimbBits + BTrailingZerosFrom(a, k + 1)
    ELSE IntTrailingZeros(a[k])

\* the digits k and above of num, modulo the one digit d > 0
RECURSIVE BRemSmallFrom(_, _, _)
BRemSmallFrom(num, d, k) ==
    IF k > Len(num) THEN 0
    ELSE (BRemSmallFrom(num, d, k + 1) * Base + num[k]) % d

\* num \div d for one digit d > 0
BDivSmall(num, d) ==
    BTrim([k \in 1..Len(num) |-> (BRemSmallFrom(num, d, k + 1) * Base + num[k]) \div d])

\* the largest digit d <= guess with den * d <= rem, and den * d
RECURSIVE BDigit(_, _, _)
BDigit(rem, den, guess) ==
    CHOOSE r \in {IF BCmp(prod, rem) > 0 THEN BDigit(rem, den, guess - 1)
                  ELSE [d |-> guess, prod |-> prod] :
                  prod \in {BMulSmall(den, guess)}} : TRUE

\* one step of the long division: the quotient q so far and the remainder rem
\* with one more digit of the numerator appended
BDivStep(q, rem, den) ==
    LET n == Len(den)
        guess == IF Len(rem) < n THEN 0
                 ELSE Min(Base - 1, (Limb(rem, n + 1) * Base + rem[n]) \div den[n])
    IN  IF guess = 0 THEN [q |-> <<0>> \o q, r |-> rem]
        ELSE CHOOSE r \in {[q |-> <<dg.d>> \o q, r |-> BSub(rem, dg.prod)] :
                           dg \in {BDigit(rem, den, guess)}} : TRUE

\* long division, from digit k of num upwards; the top digit of den has its
\* highest bit set, so the guess is at most two too large
RECURSIVE BDivModFrom(_, _, _)
BDivModFrom(num, den, k) ==
    IF k > Len(num) THEN [q |-> <<>>, r |-> <<>>]
    ELSE CHOOSE r \in {CHOOSE t \in {BDivStep(up.q, rem, den) :
                                     rem \in {BTrim(<<num[k]>> \o up.r)}} : TRUE :
                       up \in {BDivModFrom(num, den, k + 1)}} : TRUE

\* num \div den and whether num % den # 0, for a den whose top digit has its
\* highest bit set
BDivLong(num, den) ==
    CHOOSE r \in {[q |-> BTrim(res.q), inexact |-> res.r # <<>>] :
                  res \in {BDivModFrom(num, den, 1)}} : TRUE

\* [q |-> num \div den, inexact |-> num % den # 0], for num, den > 0
BDivMod(num, den) ==
    CHOOSE r \in {IF Len(d) = 1
                  THEN [q |-> BDivSmall(n, d[1]), inexact |-> BRemSmallFrom(n, d[1], 1) # 0]
                  ELSE CHOOSE t \in {BDivLong(n2, d2) :
                           n2 \in {BShl(n, LimbBits - IntBitLen(d[Len(d)]))},
                           d2 \in {BShl(d, LimbBits - IntBitLen(d[Len(d)]))}} : TRUE :
                  n \in {num}, d \in {den}} : TRUE

Zero == [s |-> 1, m |-> <<>>, e |-> 0]

\* the float s * m * 2^e with its significand made odd
Normal(s, m, e) ==
    IF m = <<>> THEN Zero
    ELSE IF m[1] % 2 = 1 THEN [s |-> s, m |-> m, e |-> e]
    ELSE CHOOSE r \in {[s |-> s, m |-> BShr(m, tz), e |-> e + tz] :
                       tz \in {BTrailingZerosFrom(m, 1)}} : TRUE

\* s * m * 2^e rounded to Precision bits, for a significand m that is too
\* long by sh >= 1 bits: to nearest, ties to even
RoundOff(s, m, e, sh) ==
    CHOOSE r \in {IF BTestBit(m, sh - 1) /\ (q[1] % 2 = 1 \/ BLowBitsSet(m, sh - 1))
                  THEN CHOOSE u \in {Normal(s, x, e + sh) : x \in {BAdd(q, <<1>>)}} : TRUE
                  ELSE Normal(s, q, e + sh) :
                  q \in {BShr(m, sh)}} : TRUE

\* s * m * 2^e rounded to Precision bits
Round(s, m, e) ==
    CHOOSE r \in {IF BBitLen(x) <= Precision THEN Normal(s, x, e)
                  ELSE RoundOff(s, x, e, BBitLen(x) - Precision) :
                  x \in {m}} : TRUE

\* float(k) for an int k
I(k) ==
    IF k = 0 THEN Zero
    ELSE Round(IF k < 0 THEN -1 ELSE 1, BFromInt(Abs(k)), 0)

FNeg(a) == IF a.m = <<>> THEN a ELSE [a EXCEPT !.s = -a.s]

\* |a| compared with |b|: -1, 0, 1
FMagCmp(a, b) ==
    IF a.m = <<>> THEN (IF b.m = <<>> THEN 0 ELSE -1)
    ELSE IF b.m = <<>> THEN 1
    ELSE LET ta == BBitLen(a.m) + a.e
             tb == BBitLen(b.m) + b.e
             e == Min(a.e, b.e)
         IN  IF ta < tb THEN -1
             ELSE IF ta > tb THEN 1
             ELSE CHOOSE r \in {BCmp(ma, mb) : ma \in {BShl(a.m, a.e - e)},
                                               mb \in {BShl(b.m, b.e - e)}} : TRUE

FLt(a, b) ==
    IF a.s # b.s THEN a.s < b.s
    ELSE IF a.s = 1 THEN FMagCmp(a, b) < 0
    ELSE FMagCmp(a, b) > 0

\* sa * ma * 2^e + sb * mb * 2^e, rounded
FAddAligned(sa, ma, sb, mb, e) ==
    IF sa = sb THEN Round(sa, BAdd(ma, mb), e)
    ELSE CHOOSE r \in {IF c = 0 THEN Zero
                       ELSE IF c > 0 THEN Round(sa, BSub(ma, mb), e)
                       ELSE Round(sb, BSub(mb, ma), e) :
                       c \in {BCmp(ma, mb)}} : TRUE

FAdd(a, b) ==
    IF a.m = <<>> THEN b
    ELSE IF b.m = <<>> THEN a
    ELSE LET e == Min(a.e, b.e)
         IN  CHOOSE r \in {FAddAligned(a.s, ma, b.s, mb, e) :
                           ma \in {BShl(a.m, a.e - e)},
                           mb \in {BShl(b.m, b.e - e)}} : TRUE

FMul(a, b) ==
    IF a.m = <<>> \/ b.m = <<>> THEN Zero
    ELSE Round(a.s * b.s, BMul(a.m, b.m), a.e + b.e)

\* the quotient of the significands to Precision + 2 bits or more, with one
\* more bit below it, set when the division left a remainder
FDiv(a, b) ==
    IF a.m = <<>> THEN Zero
    ELSE LET k == Max(0, Precision + 2 + BBitLen(b.m) - BBitLen(a.m))
         IN  CHOOSE r \in {Round(a.s * b.s,
                                 IF dm.inexact THEN [BShl(dm.q, 1) EXCEPT ![1] = @ + 1]
                                 ELSE BShl(dm.q, 1),
                                 a.e - b.e - k - 1) :
                           dm \in {BDivMod(BShl(a.m, k), b.m)}} : TRUE

\* -a
RNeg(a) == CHOOSE r \in {FNeg(x) : x \in {a}} : TRUE

\* abs(a)
RAbs(a) == [a EXCEPT !.s = 1]

\* a < b
RLt(a, b) == \E x \in {a}, y \in {b} : FLt(x, y)

RLe(a, b) == ~RLt(b, a)
RGt(a, b) == RLt(b, a)
RGe(a, b) == ~RLt(a, b)

\* a + b
RAdd(a, b) == CHOOSE r \in {FAdd(x, y) : x \in {a}, y \in {b}} : TRUE

\* a - b
RSub(a, b) == CHOOSE r \in {FAdd(x, FNeg(y)) : x \in {a}, y \in {b}} : TRUE

\* a * b
RMul(a, b) == CHOOSE r \in {FMul(x, y) : x \in {a}, y \in {b}} : TRUE

\* a / b for b # 0
RDiv(a, b) == CHOOSE r \in {FDiv(x, y) : x \in {a}, y \in {b}} : TRUE

\* the float nearest to n / d: the value of a decimal literal of the source
R(n, d) == RDiv(I(n), I(d))

\* int(a) for a >= 0
RFloor(a) ==
    CHOOSE r \in {IF x.m = <<>> THEN 0
                  ELSE IF x.e >= 0 THEN BToInt(BShl(x.m, x.e))
                  ELSE BToInt(BShr(x.m, -x.e)) :
                  x \in {a}} : TRUE

\* sum(s): from the left, starting at 0
RECURSIVE RSumTo(_, _)
RSumTo(s, k) == IF k = 0 THEN Zero ELSE RAdd(RSumTo(s, k - 1), s[k])

RSum(s) == RSumTo(s, Len(s))

-----------------------------------------------------------------------------
(* SwingReversionStrategy: configuration (your_strategy.py, __init__).      *)

ma_period == 24
grid_step_pct == R(1, 100)
max_grid_levels == 2
position_size_pct == R(275, 1000)
take_profit_above_sma_pct == R(50, 100)
trailing_stop_activation_pct == R(25, 1000)
trailing_stop_callback_pct == R(35, 1000)
max_exposure == R(55, 100)
min_trade_usd == 10

Signal(action, size, reason) == [action |-> action, size |-> size, reason |-> reason]

Hold(reason) == Signal("hold", Zero, reason)

\* a ZeroDivisionError leaving generate_signal
Raise == Signal("raise", Zero, "ZeroDivisionError")

Last(s, k) == SubSeq(s, Len(s) - k + 1, Len(s))

RECURSIVE SumFrom(_, _)
SumFrom(s, k) == IF k > Len(s) THEN 0 ELSE s[k] + SumFrom(s, k + 1)

SumInts(s) == SumFrom(s, 1)

\* statistics.mean(market.prices[-self.ma_period:])
sma(prices) == R(SumInts(Last(prices, ma_period)), ma_period)

\* (current_price - sma) / sma
deviation(prices, current_price) ==
    RDiv(RSub(I(current_price), sma(prices)), sma(prices))

\* update_trailing_high following the price down as well as up
update_trailing_high_follow(trailing_high, qty, current_price) ==
    IF RGt(qty, Zero) THEN I(current_price) ELSE Zero

\* update_trailing_high without the reset of line 62
update_trailing_high_no_reset(trailing_high, qty, current_price) ==
    IF RGt(qty, Zero) /\ RGt(I(current_price), trailing_high)
    THEN I(current_price) ELSE trailing_high

\* lines 57-62: the trailing high after the update of this call
update_trailing_high(trailing_high, qty, current_price) ==
    IF RGt(qty, Zero)
    THEN IF RGt(I(current_price), trailing_high) THEN I(current_price) ELSE trailing_high
    ELSE Zero

total_size(active_positions) ==
    RSum([k \in 1..Len(active_positions) |-> active_positions[k].size])

\* sum(p['price'] * p['size']) / total_size, for total_size > 0
avg_entry(active_positions) ==
    RDiv(RSum([k \in 1..Len(active_positions) |->
                  RMul(active_positions[k].price, active_positions[k].size)]),
         total_size(active_positions))

\* 1 + self.trailing_stop_activation_pct of line 73
activation_factor == RAdd(I(1), trailing_stop_activation_pct)

\* 1 - self.trailing_stop_callback_pct of line 74
callback_factor == RSub(I(1), trailing_stop_callback_pct)

\* trailing_stop_hit without the activation condition of line 73
trailing_stop_hit_unarmed(active_positions, trailing_high, qty, current_price) ==
    /\ RGt(qty, Zero)
    /\ RGt(total_size(active_positions), Zero)
    /\ RLt(I(current_price), RMul(trailing_high, callback_factor))

\* lines 65-76: the trailing stop fires
trailing_stop_hit(active_positions, trailing_high, qty, current_price) ==
    /\ RGt(qty, Zero)
    /\ RGt(total_size(active_positions), Zero)
    /\ RGt(trailing_high,
           RMul(avg_entry(active_positions), activation_factor))
    /\ RLt(I(current_price), RMul(trailing_high, callback_factor))

\* target_hit reading the threshold as the ratio price / sma of the comment
\* of line 38 ("price > SMA * (1 + this)") while comparing the deviation
target_hit_ratio(dev, qty) ==
    RGt(dev, RAdd(I(1), take_profit_above_sma_pct)) /\ RGt(qty, Zero)

\* line 81: the take-profit target is hit
target_hit(dev, qty) == RGt(dev, take_profit_above_sma_pct) /\ RGt(qty, Zero)

\* line 92, clamped as in lines 97-98
level_idx(dev) ==
    LET l == RFloor(RDiv(RAbs(dev), grid_step_pct))
    IN  IF l > max_grid_levels THEN max_grid_levels ELSE l

\* self.grid_step_pct * 0.5 of line 109
near_pct == RMul(grid_step_pct, R(1, 2))

\* line 108-109 for one lot with a non-zero entry price
near(pos, current_price) ==
    RLt(RDiv(RAbs(RSub(pos.price, I(current_price))), pos.price), near_pct)

\* level_check looking at the first lot only
level_check_first_only(active_positions, k, current_price) ==
    IF k > Len(active_positions) THEN "none"
    ELSE IF active_positions[k].price = Zero THEN "raise"
    ELSE IF near(active_positions[k], current_price) THEN "hold"
    ELSE "none"

\* lines 107-110: "hold" when a lot is near, "raise" when the loop divides by a
\* zero entry price before it finds one, "none" when it runs to its end
RECURSIVE level_check(_, _, _)
level_check(active_positions, k, current_price) ==
    IF k > Len(active_positions) THEN "none"
    ELSE IF active_positions[k].price = Zero THEN "raise"
    ELSE IF near(active_positions[k], current_price) THEN "hold"
    ELSE level_check(active_positions, k + 1, current_price)

\* size_buy without the exposure check of lines 116-117
size_buy_no_cap(dev, cash_, qty, current_price) ==
    LET total_equity == RAdd(cash_, RMul(qty, I(current_price)))
        wanted == RMul(total_equity, position_size_pct)
        buy_amount_usd == IF RLt(cash_, wanted) THEN cash_ ELSE wanted
    IN  IF RLt(buy_amount_usd, I(min_trade_usd)) THEN Hold("Insufficient cash")
        ELSE IF current_price = 0 THEN Raise
        ELSE Signal("buy", RDiv(buy_amount_usd, I(current_price)),
                    "Grid Buy Level " \o ToString(level_idx(dev)))

\* size_buy without the minimum trade size of lines 125-126
size_buy_no_min(dev, cash_, qty, current_price) ==
    LET total_equity == RAdd(cash_, RMul(qty, I(current_price)))
        current_exposure == RDiv(RMul(qty, I(current_price)), total_equity)
        wanted == RMul(total_equity, position_size_pct)
        buy_amount_usd == IF RLt(cash_, wanted) THEN cash_ ELSE wanted
    IN  IF RGe(current_exposure, max_exposure) THEN Hold("Max exposure reached")
        ELSE IF current_price = 0 THEN Raise
        ELSE Signal("buy", RDiv(buy_amount_usd, I(current_price)),
                    "Grid Buy Level " \o ToString(level_idx(dev)))

\* lines 113-129, with total_equity # 0: the division of line 128 raises
\* ZeroDivisionError at a price of 0
size_buy(dev, cash_, qty, current_price) ==
    LET total_equity == RAdd(cash_, RMul(qty, I(current_price)))
        current_exposure == RDiv(RMul(qty, I(current_price)), total_equity)
        wanted == RMul(total_equity, position_size_pct)
        buy_amount_usd == IF RLt(cash_, wanted) THEN cash_ ELSE wanted
    IN  IF RGe(current_exposure, max_exposure) THEN Hold("Max exposure reached")
        ELSE IF RLt(buy_amount_usd, I(min_trade_usd)) THEN Hold("Insufficient cash")
        ELSE IF current_price = 0 THEN Raise
        ELSE Signal("buy", RDiv(buy_amount_usd, I(current_price)),
                    "Grid Buy Level " \o ToString(level_idx(dev)))

\* check_buys without the dead zone of lines 94-95
check_buys_no_dead_zone(active_positions, dev, cash_, qty, current_price) ==
    IF ~RLt(dev, Zero) THEN Hold("")
    ELSE LET lc == level_check(active_positions, 1, current_price)
         IN  IF lc = "raise" THEN Raise
             ELSE IF lc = "hold" THEN Hold("Position already exists at this level")
             ELSE IF RAdd(cash_, RMul(qty, I(current_price))) = Zero THEN Raise
             ELSE size_buy(dev, cash_, qty, current_price)

\* lines 85-131
check_buys(active_positions, dev, cash_, qty, current_price) ==
    IF ~RLt(dev, Zero) THEN Hold("")
    ELSE IF RFloor(RDiv(RAbs(dev), grid_step_pct)) < 1 THEN Hold("")
    ELSE LET lc == level_check(active_positions, 1, current_price)
         IN  IF lc = "raise" THEN Raise
             ELSE IF lc = "hold" THEN Hold("Position already exists at this level")
             ELSE IF RAdd(cash_, RMul(qty, I(current_price))) = Zero THEN Raise
             ELSE size_buy(dev, cash_, qty, current_price)

\* generate_signal with the length check of lines 50-51 made after the update
\* of the trailing high instead of before it
generate_signal_late_gate(self, mkt, pf) ==
    LET th == update_trailing_high(self.trailing_high, pf.quantity, mkt.current_price)
    IN  IF Len(mkt.prices) < ma_period
        THEN [signal |-> Hold(""), trailing_high |-> th]
        ELSE IF SumInts(Last(mkt.prices, ma_period)) = 0
        THEN [signal |-> Raise, trailing_high |-> self.trailing_high]
        ELSE
        LET dev == deviation(mkt.prices, mkt.current_price)
            sig == IF trailing_stop_hit(self.active_positions, th, pf.quantity,
                                        mkt.current_price)
                   THEN Signal("sell", pf.quantity, "Trailing Stop Hit")
                   ELSE IF target_hit(dev, pf.quantity)
                   THEN Signal("sell", pf.quantity, "Mean Reversion: Target Hit")
                   ELSE check_buys(self.active_positions, dev, pf.cash, pf.quantity,
                                   mkt.current_price)
        IN  [signal |-> sig, trailing_high |-> th]

\* generate_signal(self, market, portfolio): the signal returned and the value
\* self.trailing_high is left with.  self = [active_positions |-> the lots,
\* trailing_high |-> ...]; mkt = [prices, current_price]; pf = [cash, quantity].
\* dev and th are the deviation of line 55 and the trailing high after lines
\* 57-62, each computed once.
generate_signal(self, mkt, pf) ==
    IF Len(mkt.prices) < ma_period
    THEN [signal |-> Hold(""), trailing_high |-> self.trailing_high]
    ELSE IF SumInts(Last(mkt.prices, ma_period)) = 0
    THEN [signal |-> Raise, trailing_high |-> self.trailing_high]
    ELSE
    CHOOSE res \in
        {[signal |->
              IF trailing_stop_hit(self.active_positions, th, pf.quantity,
                                   mkt.current_price)
              THEN Signal("sell", pf.quantity, "Trailing Stop Hit")
              ELSE IF target_hit(dev, pf.quantity)
              THEN Signal("sell", pf.quantity, "Mean Reversion: Target Hit")
              ELSE check_buys(self.active_positions, dev, pf.cash, pf.quantity,
                              mkt.current_price),
          trailing_high |-> th] :
         dev \in {deviation(mkt.prices, mkt.current_price)},
         th \in {update_trailing_high(self.trailing_high, pf.quantity,
                                      mkt.current_price)}} : TRUE

\* on_trade(self, signal, execution_price, execution_size, timestamp), on the
\* list object self.active_positions refers to
Lot(price, size) == [price |-> price, size |-> size]

\* the smallest list id not in use
NewList(h) == CHOOSE k \in 1..(Cardinality(DOMAIN h) + 1) : k \notin DOMAIN h


\* on_trade without the clearing of line 138
on_trade_no_clear(h, self, signal, execution_price, execution_size) ==
    IF signal.action = "buy"
    THEN [heap |-> [h EXCEPT ![self.active_positions] =
                        Append(@, Lot(execution_price, execution_size))],
          self |-> self]
    ELSE [heap |-> h, self |-> self]

\* on_trade, lines 133-138: the heap and self.active_positions after it.  A buy
\* appends to the list object in place; a sell binds the name to a new list.
on_trade(h, self, signal, execution_price, execution_size) ==
    IF signal.action = "buy"
    THEN [heap |-> [h EXCEPT ![self.active_positions] =
                        Append(@, Lot(execution_price, execution_size))],
          self |-> self]
    ELSE IF signal.action = "sell"
    THEN LET k == NewList(h)
         IN  [heap |-> [j \in DOMAIN h \cup {k} |-> IF j = k THEN <<>> ELSE h[j]],
              self |-> [self EXCEPT !.active_positions = k]]
    ELSE [heap |-> h, self |-> self]

\* get_state, lines 140-145: the mapping holds the list object itself
get_state(self) ==
    [active_positions |-> self.active_positions, trailing_high |-> self.trailing_high]

\* set_state, lines 147-150: the engine takes the list object of the mapping
\* (a new empty list when the mapping has none) and its trailing high
set_state(h, self, mapping) ==
    LET k == NewList(h)
        fresh == "active_positions" \notin DOMAIN mapping
    IN  [heap |-> IF fresh
                  THEN [j \in DOMAIN h \cup {k} |-> IF j = k THEN <<>> ELSE h[j]]
                  ELSE h,
         self |-> [active_positions |-> IF fresh THEN k ELSE mapping.active_positions,
                   trailing_high |-> IF "trailing_high" \in DOMAIN mapping
                                     THEN mapping.trailing_high ELSE Zero]]

\* the engine as generate_signal reads it: the lots of its list, its trailing high
View(h, self) ==
    [active_positions |-> h[self.active_positions], trailing_high |-> self.trailing_high]

-----------------------------------------------------------------------------
(* BacktestExchange and run_backtest (backtest_runner.py).                  *)

start_idx == 50
limit == 100
initial_cash == 10000

\* fetch_market_snapshot with the window ending one bar late
fetch_market_snapshot_ahead(df, idx, lim) ==
    LET end_idx == idx + 2
        start == Max(0, end_idx - lim)
        prices == SubSeq(df, start + 1, Min(end_idx, Len(df)))
    IN  [prices |-> prices, current_price |-> prices[Len(prices)]]

\* fetch_market_snapshot, lines 28-45; bars are numbered from 0, data from 1
fetch_market_snapshot(df, idx, lim) ==
    LET end_idx == idx + 1
        start == Max(0, end_idx - lim)
        prices == SubSeq(df, start + 1, Min(end_idx, Len(df)))
    IN  [prices |-> prices, current_price |-> prices[Len(prices)]]

\* portfolio.value(current_price)
value(pf, current_price) == RAdd(pf.cash, RMul(pf.quantity, I(current_price)))

\* the guard of line 117 left out
can_buy_always(pf, cost) == TRUE

\* the guard of line 130 left out
can_sell_always(pf, size) == TRUE

\* line 117: the buy is affordable
can_buy(pf, cost) == RGe(pf.cash, cost)

\* line 130: the quantity sold is held
can_sell(pf, size) == RGe(pf.quantity, size)

\* lines 118-119
buy_fill(pf, size, cost) ==
    [cash |-> RSub(pf.cash, cost), quantity |-> RAdd(pf.quantity, size)]

\* sell_fill without line 133: the revenue is booked, the quantity is kept
sell_fill_keep_quantity(pf, size, revenue) ==
    [cash |-> RAdd(pf.cash, revenue), quantity |-> pf.quantity]

\* lines 131-133
sell_fill(pf, size, revenue) ==
    [cash |-> RAdd(pf.cash, revenue), quantity |-> RSub(pf.quantity, size)]

\* lines 115-141: what one signal does to the portfolio, the trades and the
\* engine; filled says whether the trade was applied
apply_signal(signal, current_price, pf, tr, h, self) ==
    LET cost == RMul(signal.size, I(current_price))
        ot == on_trade(h, self, signal, I(current_price), signal.size)
        trade == [side |-> signal.action, price |-> current_price, size |-> signal.size]
    IN  IF signal.action = "buy" /\ can_buy(pf, cost)
        THEN [pf |-> buy_fill(pf, signal.size, cost), trades |-> Append(tr, trade),
              heap |-> ot.heap, self |-> ot.self, filled |-> TRUE]
        ELSE IF signal.action = "sell" /\ can_sell(pf, signal.size)
        THEN [pf |-> sell_fill(pf, signal.size, cost), trades |-> Append(tr, trade),
              heap |-> ot.heap, self |-> ot.self, filled |-> TRUE]
        ELSE [pf |-> pf, trades |-> tr, heap |-> h, self |-> self, filled |-> FALSE]

\* drawdown_loop measuring every drop from the starting peak: line 163 left out
RECURSIVE drawdown_loop_fixed_peak(_, _, _, _)
drawdown_loop_fixed_peak(curve, k, peak, max_drawdown) ==
    IF k > Len(curve) THEN max_drawdown
    ELSE LET dd == RDiv(RSub(peak, curve[k]), peak)
         IN  IF RGt(dd, max_drawdown)
             THEN drawdown_loop_fixed_peak(curve, k + 1, peak, dd)
             ELSE drawdown_loop_fixed_peak(curve, k + 1, peak, max_drawdown)

\* lines 158-166: the drawdown loop over equity_curve[k..], from peak and the
\* maximum so far
RECURSIVE drawdown_loop(_, _, _, _)
drawdown_loop(curve, k, peak, max_drawdown) ==
    IF k > Len(curve) THEN max_drawdown
    ELSE LET eq == curve[k]
             pk == IF RGt(eq, peak) THEN eq ELSE peak
             dd == RDiv(RSub(pk, eq), pk)
         IN  IF RGt(dd, max_drawdown)
             THEN drawdown_loop(curve, k + 1, pk, dd)
             ELSE drawdown_loop(curve, k + 1, pk, max_drawdown)

NoReport ==
    [outcome |-> "none", final_equity |-> Zero, pnl |-> Zero, pnl_pct |-> Zero,
     total_trades |-> 0, max_drawdown |-> Zero]

\* lines 147-168: equity_curve[-1] raises IndexError on an empty curve
make_report(curve, tr) ==
    IF curve = <<>> THEN [NoReport EXCEPT !.outcome = "IndexError"]
    ELSE LET final_equity == curve[Len(curve)]
             pnl == RSub(final_equity, I(initial_cash))
         IN  [outcome |-> "report", final_equity |-> final_equity, pnl |-> pnl,
              pnl_pct |-> RMul(RDiv(pnl, I(initial_cash)), I(100)),
              total_trades |-> Len(tr),
              max_drawdown |-> drawdown_loop(curve, 1, I(initial_cash), Zero)]

-----------------------------------------------------------------------------
(* State shared by the specifications.                                      *)

Engines == {"A", "B"}

EmptyMap == [k \in {} |-> Zero]

NoState == [held |-> FALSE, mapping |-> EmptyMap]

NoMarket == [prices |-> <<>>, current_price |-> 0]

NoCall ==
    [kind |-> "none", engine |-> "A", cash |-> Zero, quantity |-> Zero,
     signal |-> Hold(""), before |-> [active_positions |-> <<>>, trailing_high |-> Zero],
     filled |-> FALSE, calls |-> 0, prev_quantity |-> Zero, prev_high |-> Zero,
     cash_before |-> Zero, quantity_before |-> Zero, trades_before |-> <<>>,
     points_before |-> 0]

\* The heap as the names see it: a list no name refers to is freed, and the
\* lists are numbered in the order engine A, engine B, the exported mapping
\* (a list's identity matters only through which names share it).
Canon(h, st, held) ==
    LET a == st["A"].active_positions
        b == st["B"].active_positions
        hm == held.held /\ "active_positions" \in DOMAIN held.mapping
        m == IF hm THEN held.mapping.active_positions ELSE a
        nb == IF b = a THEN 1 ELSE 2
        nm == IF m = a THEN 1 ELSE IF m = b THEN nb ELSE 3
    IN  [heap |-> [k \in {1, nb, nm} |-> IF k = 1 THEN h[a] ELSE IF k = nb THEN h[b] ELSE h[m]],
         strategy |-> [st EXCEPT !["A"].active_positions = 1, !["B"].active_positions = nb],
         state |-> IF hm THEN [held EXCEPT !.mapping.active_positions = nm] ELSE held]

\* __init__, lines 43-45: each engine starts with a list of its own
NewEngines ==
    [e \in Engines |-> [active_positions |-> IF e = "A" THEN 1 ELSE 2,
                        trailing_high |-> Zero]]

NewHeap == [k \in {1, 2} |-> <<>>]

-----------------------------------------------------------------------------
(* Spec: run_backtest over a price series.                                  *)

MaxTail == 3

Prices == {80, 88, 96, 100, 110, 200}

LongPrices == {88, 200}

Pad(n) == [k \in 1..n |-> 100]

Tails(S) == UNION {[1..k -> S] : k \in 0..MaxTail}

\* limit bars, the first of them unlike the rest
LongPad == <<110>> \o Pad(limit - 1)

Series ==
    {<<>>} \cup {Pad(start_idx) \o t : t \in Tails(Prices)}
           \cup {LongPad \o t : t \in Tails(LongPrices)}

\* the loop variable of line 101 in the iteration to come
i == start_idx + Len(equity_curve)

InitWith(S) ==
    /\ data \in S
    /\ pc = "start"
    /\ current_idx = 0
    /\ cash = I(initial_cash)
    /\ quantity = Zero
    /\ trades = <<>>
    /\ equity_curve = <<>>
    /\ report = NoReport
    /\ heap = NewHeap
    /\ strategy = NewEngines
    /\ state = NoState
    /\ market = NoMarket
    /\ last = NoCall
    /\ hist = [e \in Engines |-> <<>>]

Init == InitWith(Series)

\* lines 69-71
Download ==
    /\ pc = "start"
    /\ IF data = <<>>
       THEN pc' = "done" /\ report' = [NoReport EXCEPT !.outcome = "No data downloaded!"]
       ELSE pc' = "loop" /\ report' = report
    /\ UNCHANGED <<data, current_idx, cash, quantity, trades, equity_curve, heap,
                   strategy, state, market, last, hist>>

\* one iteration of the loop of lines 101-145 with the signal sig(mkt, pf)
Iterate(sig, th) ==
    LET current_price == data[i + 1]
        self == [strategy["A"] EXCEPT !.trailing_high = th]
    IN  \E ap \in {apply_signal(sig, current_price, [cash |-> cash, quantity |-> quantity],
                                trades, heap, self)} :
        \E c \in {Canon(ap.heap, [strategy EXCEPT !["A"] = ap.self], state)} :
        /\ current_idx' = i
        /\ cash' = ap.pf.cash
        /\ quantity' = ap.pf.quantity
        /\ trades' = ap.trades
        /\ equity_curve' = Append(equity_curve, value(ap.pf, current_price))
        /\ strategy' = c.strategy
        /\ heap' = c.heap
        /\ last' = [kind |-> "step", engine |-> "A", cash |-> cash, quantity |-> quantity,
                    signal |-> sig, before |-> View(heap, strategy["A"]),
                    filled |-> ap.filled, calls |-> Min(last.calls + 1, 2),
                    prev_quantity |-> last.quantity,
                    prev_high |-> strategy["A"].trailing_high,
                    cash_before |-> cash, quantity_before |-> quantity,
                    trades_before |-> trades, points_before |-> Len(equity_curve)]

Step ==
    /\ pc = "loop"
    /\ i < Len(data)
    /\ \E mkt \in {fetch_market_snapshot(data, i, limit)} :
       \E res \in {generate_signal(View(heap, strategy["A"]), mkt,
                                    [cash |-> cash, quantity |-> quantity])} :
           /\ market' = mkt
           /\ IF res.signal.action = "raise"
              THEN /\ pc' = "fault"
                   /\ strategy' = [strategy EXCEPT !["A"].trailing_high = res.trailing_high]
                   /\ current_idx' = i
                   /\ last' = [NoCall EXCEPT !.kind = "step", !.signal = res.signal]
                   /\ UNCHANGED <<cash, quantity, trades, equity_curve, heap>>
              ELSE /\ pc' = pc
                   /\ Iterate(res.signal, res.trailing_high)
    /\ UNCHANGED <<data, report, state, hist>>

\* lines 147-168
Report ==
    /\ pc = "loop"
    /\ i >= Len(data)
    /\ report' = make_report(equity_curve, trades)
    /\ pc' = IF report'.outcome = "IndexError" THEN "fault" ELSE "done"
    /\ UNCHANGED <<data, current_idx, cash, quantity, trades, equity_curve, heap,
                   strategy, state, market, last, hist>>

Next == Download \/ Step \/ Report

Spec == Init /\ [][Next]_vars

-----------------------------------------------------------------------------
(* SpecStub: run_backtest with a strategy that may return any signal.  The  *)
(* guards of lines 117 and 130 are written against such a strategy: the     *)
(* signals of SwingReversionStrategy always pass them.  Each step takes the *)
(* signal of the engine or one of StubSignals; the engine's on_trade and    *)
(* trailing high are kept.                                                  *)

StubPrices == {88, 110}

StubSeries == {Pad(start_idx) \o t : t \in Tails(StubPrices)}

StubSignals ==
    {Signal("buy", I(60), "stub"), Signal("buy", I(200), "stub"),
     Signal("sell", I(10), "stub"), Signal("sell", I(100), "stub")}

InitStub == InitWith(StubSeries)

StepStub ==
    /\ pc = "loop"
    /\ i < Len(data)
    /\ \E mkt \in {fetch_market_snapshot(data, i, limit)} :
       \E res \in {generate_signal(View(heap, strategy["A"]), mkt,
                                    [cash |-> cash, quantity |-> quantity])} :
           /\ market' = mkt
           /\ \E sig \in StubSignals \cup {res.signal} :
                  /\ sig.action # "raise"
                  /\ Iterate(sig, res.trailing_high)
    /\ UNCHANGED <<data, pc, report, state, hist>>

NextStub == Download \/ StepStub \/ Report

SpecStub == InitStub /\ [][NextStub]_vars

-----------------------------------------------------------------------------
(* SpecEngine: one SwingReversionStrategy called through its interface,     *)
(* generate_signal with any snapshot and portfolio, on_trade with any fill. *)

MaxLots == 2

EnginePrices == {77, 80, 96, 99, 101, 123, 200, 250}

\* ma_period prices ending at p; one bar short of ma_period; a mean of 100
\* with the last price one grid step below it; a mean of 4000 / 24 with the
\* last price 165, a deviation of -0.009999999999999943; all zero; a last
\* price of zero
Windows ==
    {Pad(ma_period - 1) \o <<p>> : p \in EnginePrices}
        \cup {Pad(ma_period - 1),
              Pad(ma_period - 2) \o <<101, 99>>,
              [k \in 1..ma_period |->
                  IF k <= 17 THEN 167 ELSE IF k <= 23 THEN 166 ELSE 165],
              [k \in 1..ma_period |-> 0],
              Pad(ma_period - 1) \o <<0>>}

Snapshot(w) == [prices |-> w, current_price |-> w[Len(w)]]

\* the cash of which 27.5% is the minimum trade of 10 exactly:
\* 36.36363636363636
MinTradeCash == RDiv(I(min_trade_usd), position_size_pct)

Portfolios ==
    {[cash |-> c, quantity |-> q] :
        c \in {I(0), I(5), I(36), MinTradeCash, I(37), I(10000)},
        q \in {Zero, R(1, 100), I(60)}}

\* the fills on_trade is told of: execution price and size.  A lot at 120
\* arms the trailing stop above 120 * (1 + 0.025) = 122.99999999999999.
Fills == {Lot(I(120), I(1)), Lot(I(96), R(1, 100))}

InitEngine ==
    /\ data = <<>>
    /\ pc = "engine"
    /\ current_idx = 0
    /\ cash = Zero
    /\ quantity = Zero
    /\ trades = <<>>
    /\ equity_curve = <<>>
    /\ report = NoReport
    /\ heap = NewHeap
    /\ strategy = NewEngines
    /\ state = NoState
    /\ market = NoMarket
    /\ last = NoCall
    /\ hist = [e \in Engines |-> <<>>]

\* engine e runs generate_signal(mkt, pf)
Generate(e, mkt, pf) ==
    \E res \in {generate_signal(View(heap, strategy[e]), mkt, pf)} :
        /\ strategy' = [strategy EXCEPT ![e].trailing_high = res.trailing_high]
        /\ market' = mkt
        /\ last' = [NoCall EXCEPT !.kind = "generate_signal", !.engine = e,
                                  !.cash = pf.cash, !.quantity = pf.quantity,
                                  !.signal = res.signal,
                                  !.before = View(heap, strategy[e])]
        /\ heap' = heap
        /\ state' = state

\* engine e runs on_trade(signal, price, size)
Fill(e, signal, price, size) ==
    \E ot \in {on_trade(heap, strategy[e], signal, price, size)} :
    \E c \in {Canon(ot.heap, [strategy EXCEPT ![e] = ot.self], state)} :
        /\ strategy' = c.strategy
        /\ heap' = c.heap
        /\ state' = c.state
        /\ last' = [NoCall EXCEPT !.kind = "on_trade", !.engine = e,
                                  !.signal = signal,
                                  !.before = View(heap, strategy[e])]
        /\ market' = market

CallGenerate ==
    /\ pc = "engine"
    /\ \E w \in Windows, pf \in Portfolios : Generate("A", Snapshot(w), pf)
    /\ pc' = "returned"
    /\ UNCHANGED <<data, current_idx, cash, quantity, trades, equity_curve,
                   report, hist>>

CallOnTrade ==
    /\ pc = "engine"
    /\ \E a \in {"buy", "sell", "hold"}, f \in Fills :
           /\ a = "buy" => Len(heap[strategy["A"].active_positions]) < MaxLots
           /\ Fill("A", Signal(a, f.size, ""), f.price, f.size)
    /\ pc' = "returned"
    /\ UNCHANGED <<data, current_idx, cash, quantity, trades, equity_curve,
                   report, hist>>

\* the caller has the result and goes on to its next call
Return ==
    /\ pc = "returned"
    /\ pc' = "engine"
    /\ last' = NoCall
    /\ market' = NoMarket
    /\ UNCHANGED <<data, current_idx, cash, quantity, trades, equity_curve, report,
                   heap, strategy, state, hist>>

NextEngine == CallGenerate \/ CallOnTrade \/ Return

SpecEngine == InitEngine /\ [][NextEngine]_vars

-----------------------------------------------------------------------------
(* SpecRestore: engine A is called a few times, exports its state, and a    *)
(* fresh engine B of the same configuration imports the mapping.  From then *)
(* on both engines are given one and the same sequence of calls, each at    *)
(* its own pace; hist[e] holds the calls engine e has taken and what they   *)
(* returned.                                                                *)

MaxSetup == 2

MaxCalls == 2

NoSignal == Signal("none", Zero, "")

GenerateInput(p, c, q) ==
    [op |-> "generate_signal", market |-> Snapshot(Pad(ma_period - 1) \o <<p>>),
     portfolio |-> [cash |-> I(c), quantity |-> q],
     signal |-> NoSignal, price |-> Zero, size |-> Zero]

OnTradeInput(a, p, z) ==
    [op |-> "on_trade", market |-> NoMarket,
     portfolio |-> [cash |-> Zero, quantity |-> Zero],
     signal |-> Signal(a, z, ""), price |-> p, size |-> z]

RestoreInputs ==
    {GenerateInput(96, 10000, Zero), GenerateInput(96, 5000, I(60)),
     GenerateInput(200, 5000, I(60)),
     OnTradeInput("buy", I(96), I(60)), OnTradeInput("sell", I(96), I(60))}

\* engine e takes the call inp: the heap, the engines and the result after it
Take(e, inp) ==
    IF inp.op = "generate_signal"
    THEN LET res == generate_signal(View(heap, strategy[e]), inp.market, inp.portfolio)
         IN  [heap |-> heap,
              strategy |-> [strategy EXCEPT ![e].trailing_high = res.trailing_high],
              output |-> res.signal]
    ELSE LET ot == on_trade(heap, strategy[e], inp.signal, inp.price, inp.size)
         IN  [heap |-> ot.heap, strategy |-> [strategy EXCEPT ![e] = ot.self],
              output |-> NoSignal]

InitRestore ==
    /\ data = <<>>
    /\ pc = "setup"
    /\ current_idx = 0
    /\ cash = Zero
    /\ quantity = Zero
    /\ trades = <<>>
    /\ equity_curve = <<>>
    /\ report = NoReport
    /\ heap = NewHeap
    /\ strategy = NewEngines
    /\ state = NoState
    /\ market = NoMarket
    /\ last = NoCall
    /\ hist = [e \in Engines |-> <<>>]

\* before the export: a call on engine A
SetupCall ==
    /\ pc = "setup"
    /\ Len(hist["A"]) < MaxSetup
    /\ \E inp \in RestoreInputs :
           \E t \in {Take("A", inp)} :
           \E c \in {Canon(t.heap, t.strategy, state)} :
               /\ heap' = c.heap
               /\ strategy' = c.strategy
               /\ hist' = [hist EXCEPT !["A"] = Append(@, [input |-> inp, output |-> t.output])]
    /\ UNCHANGED <<data, pc, current_idx, cash, quantity, trades, equity_curve,
                   report, state, market, last>>

\* state = A.get_state()
Export ==
    /\ pc = "setup"
    /\ state' = [held |-> TRUE, mapping |-> get_state(strategy["A"])]
    /\ pc' = "exported"
    /\ hist' = [e \in Engines |-> <<>>]
    /\ last' = [NoCall EXCEPT !.kind = "get_state", !.engine = "A",
                              !.before = View(heap, strategy["A"])]
    /\ UNCHANGED <<data, current_idx, cash, quantity, trades, equity_curve, report,
                   heap, strategy, market>>

\* B.set_state(state)
Import ==
    /\ pc = "exported"
    /\ \E ss \in {set_state(heap, strategy["B"], state.mapping)} :
       \E c \in {Canon(ss.heap, [strategy EXCEPT !["B"] = ss.self], state)} :
           /\ heap' = c.heap
           /\ strategy' = c.strategy
           /\ state' = c.state
    /\ pc' = "restored"
    /\ UNCHANGED <<data, current_idx, cash, quantity, trades, equity_curve, report,
                   market, last, hist>>

Other(e) == IF e = "A" THEN "B" ELSE "A"

\* after the import: engine e takes its next call, the one the other engine
\* took at that position if it is ahead, any call otherwise
Feed(e) ==
    /\ pc = "restored"
    /\ Len(hist[e]) < MaxCalls
    /\ \E inp \in RestoreInputs :
           /\ Len(hist[Other(e)]) > Len(hist[e]) =>
                  inp = hist[Other(e)][Len(hist[e]) + 1].input
           /\ \E t \in {Take(e, inp)} :
              \E c \in {Canon(t.heap, t.strategy, state)} :
                  /\ heap' = c.heap
                  /\ strategy' = c.strategy
                  /\ state' = c.state
                  /\ hist' = [hist EXCEPT ![e] = Append(@, [input |-> inp,
                                                            output |-> t.output])]
    /\ UNCHANGED <<data, pc, current_idx, cash, quantity, trades, equity_curve,
                   report, market, last>>

FeedA == Feed("A")

FeedB == Feed("B")

NextRestore == SetupCall \/ Export \/ Import \/ FeedA \/ FeedB

SpecRestore == InitRestore /\ [][NextRestore]_vars

-----------------------------------------------------------------------------
(* SpecReport: section 4 of run_backtest as a function of the equity curve  *)
(* the loop has recorded: the loop is over, the curve is any sequence of    *)
(* up to MaxCurve equities, and Report computes the figures from it.        *)

MaxCurve == 4

Equities == {9000, 9500, 10000, 11000}

Curves == UNION {[1..k -> {I(e) : e \in Equities}] : k \in 0..MaxCurve}

InitReport ==
    /\ equity_curve \in Curves
    /\ data = Pad(start_idx + Len(equity_curve))
    /\ pc = "loop"
    /\ current_idx = IF equity_curve = <<>> THEN 0 ELSE Len(data) - 1
    /\ cash = IF equity_curve = <<>> THEN I(initial_cash)
              ELSE equity_curve[Len(equity_curve)]
    /\ quantity = Zero
    /\ trades = <<>>
    /\ report = NoReport
    /\ heap = NewHeap
    /\ strategy = NewEngines
    /\ state = NoState
    /\ market = NoMarket
    /\ last = NoCall
    /\ hist = [e \in Engines |-> <<>>]

NextReport == Report

SpecReport == InitReport /\ [][NextReport]_vars

-----------------------------------------------------------------------------
(* Properties of run_backtest (Spec).                                       *)

Ledger == heap[strategy["A"].active_positions]

TrailingHigh == strategy["A"].trailing_high

\* C1: ledger consistency.  In every state of a run, portfolio.quantity equals
\* the sum of the sizes of the lots in the engine's active_positions.
C1_LedgerConsistency == quantity = total_size(Ledger)

\* a second buy has been filled: two lots, and their sizes add up to quantity
C1_Witness ==
    /\ last.kind = "step" /\ last.filled /\ last.signal.action = "buy"
    /\ Len(Ledger) = 2
    /\ RGt(quantity, Ledger[1].size)

\* C3: monotonic trailing high.  After a call made with quantity > 0 the
\* trailing high is at least the current price of the call, and when the call
\* before it was made with quantity > 0 as well, at least the trailing high
\* that call left.
C3_MonotonicTrailingHigh ==
    (last.kind = "step" /\ last.signal.action # "raise" /\ RGt(last.quantity, Zero)) =>
        /\ RGe(TrailingHigh, I(market.current_price))
        /\ (last.calls >= 2 /\ RGt(last.prev_quantity, Zero)) =>
               RGe(TrailingHigh, last.prev_high)

\* two consecutive calls with quantity > 0, the price of the later below the high
C3_Witness ==
    /\ last.kind = "step" /\ last.calls >= 2
    /\ RGt(last.quantity, Zero) /\ RGt(last.prev_quantity, Zero)
    /\ RLt(I(market.current_price), TrailingHigh)
    /\ TrailingHigh = last.prev_high

\* C4 as claimed: the trailing high is 0 whenever quantity is 0 between steps,
\* in particular at the end of the step whose sell fill brings quantity to 0.
C4_ResetOnSellStep == quantity = Zero => TrailingHigh = Zero

\* C4 as the code has it: the trailing high is 0 at the end of every step whose
\* generate_signal call was made with quantity = 0; the step of the sell fill
\* itself leaves it at the high of the closed position, which is at least the
\* sell price.
C4_ResetOnNextCall ==
    /\ (last.kind = "step" /\ last.signal.action # "raise" /\ last.quantity = Zero) =>
           TrailingHigh = Zero
    /\ (last.kind = "step" /\ last.filled /\ last.signal.action = "sell") =>
           /\ quantity = Zero
           /\ RGe(TrailingHigh, I(market.current_price))
           /\ RGt(TrailingHigh, Zero)

\* the call after a sell fill: it ran with quantity = 0 and a stale high
C4_Witness ==
    /\ last.kind = "step" /\ last.quantity = Zero
    /\ RGt(last.before.trailing_high, Zero)
    /\ last.trades_before # <<>>
    /\ last.trades_before[Len(last.trades_before)].side = "sell"
    /\ TrailingHigh = Zero

\* C8: no lookahead.  At the step with index i the snapshot holds exactly the
\* min(limit, i + 1) closing prices ending at bar i, oldest first, and its
\* current price is the close of bar i.
C8_NoLookahead ==
    last.kind = "step" =>
        LET n == Min(limit, current_idx + 1)
        IN  /\ Len(market.prices) = n
            /\ \A k \in 1..n : market.prices[k] = data[current_idx + 1 - n + k]
            /\ market.current_price = data[current_idx + 1]

\* a step past bar limit (the window is cut on the left) with a different
\* bar still to come
C8_Witness ==
    /\ last.kind = "step"
    /\ current_idx >= limit
    /\ current_idx + 1 < Len(data)
    /\ data[current_idx + 2] # data[current_idx + 1]
    /\ data[current_idx + 1 - limit] # market.prices[1]

\* the run is over: run_backtest has returned or an exception has left it
Ended == pc \in {"done", "fault"}

\* C14: empty input.  A run over a series with no bar at or after start_idx
\* (no bars at all, or at most start_idx of them) ends without a fault and
\* with a zero-trade report: final equity the initial cash, no trades, no
\* drawdown.
C14_EmptyInput ==
    (Ended /\ Len(data) <= start_idx) =>
        /\ pc = "done"
        /\ report.outcome = "report"
        /\ report.final_equity = I(initial_cash)
        /\ report.total_trades = 0
        /\ report.max_drawdown = Zero

\* quantity * price / (cash + quantity * price) of the portfolio after the
\* step, at the price of the step
Exposure ==
    RDiv(RMul(quantity, I(market.current_price)),
         RAdd(cash, RMul(quantity, I(market.current_price))))

\* C16: max exposure 55%.  After a buy fill applied by the driver the exposure
\* of the portfolio at the fill price is at most 0.55.
C16_ExposureAfterBuy ==
    (last.kind = "step" /\ last.filled /\ last.signal.action = "buy") =>
        RLe(Exposure, max_exposure)

\* C18: sells are full exits.  Every sell signal has the size of the quantity
\* passed to the call; after a sell fill quantity is 0 and active_positions is
\* empty; and active_positions is empty exactly when quantity is 0.
C18_FullExit ==
    /\ (last.kind = "step" /\ last.signal.action = "sell") =>
           last.signal.size = last.quantity
    /\ (last.kind = "step" /\ last.filled /\ last.signal.action = "sell") =>
           quantity = Zero /\ Ledger = <<>>
    /\ (Ledger = <<>>) <=> (quantity = Zero)

\* a sell fill that closed a position of two lots
C18_Witness ==
    /\ last.kind = "step" /\ last.filled /\ last.signal.action = "sell"
    /\ Len(last.before.active_positions) = 2
    /\ RGt(last.quantity_before, Zero)
    /\ quantity = Zero /\ Ledger = <<>>

\* |p.price - price| / p.price < grid_step_pct / 2
Within(p, price) ==
    RLt(RDiv(RAbs(RSub(p.price, price)), p.price), RDiv(grid_step_pct, I(2)))

\* the latest generate_signal call returned buy with no lot near its price
C19_NoBuyNearLot ==
    (last.kind \in {"step", "generate_signal"} /\ last.signal.action = "buy") =>
        \A k \in 1..Len(last.before.active_positions) :
            ~Within(last.before.active_positions[k], I(market.current_price))

\* each lot is at least grid_step_pct / 2 away from every lot added before it
C19_Separated ==
    \A k \in 1..Len(Ledger) : \A j \in 1..(k - 1) :
        ~Within(Ledger[j], Ledger[k].price)

\* C19: anti-clustering.  generate_signal never returns buy when some lot is
\* within grid_step_pct / 2 of the current price (relative to the lot's
\* price); hence in every state of a run each lot's entry price differs from
\* that of every earlier lot by at least grid_step_pct / 2 of the earlier
\* lot's price.
C19_AntiClustering == C19_NoBuyNearLot /\ C19_Separated

\* the second of two lots is near the price, the first is not, and the call
\* holds where it would have bought
C19_Witness ==
    /\ last.kind = "step"
    /\ Len(last.before.active_positions) = 2
    /\ ~Within(last.before.active_positions[1], I(market.current_price))
    /\ Within(last.before.active_positions[2], I(market.current_price))
    /\ last.signal = Hold("Position already exists at this level")
    /\ Ledger = last.before.active_positions

-----------------------------------------------------------------------------
(* Properties of the loop body under any signal (SpecStub).                 *)

LastCost == RMul(last.signal.size, I(market.current_price))

\* C6: no short selling and no overdraft.  Cash and quantity are never
\* negative; a buy is applied only when cash >= size * price and a sell only
\* when quantity >= size.
C6_NoOverdraft ==
    /\ RGe(cash, Zero)
    /\ RGe(quantity, Zero)
    /\ (last.kind = "step" /\ last.filled /\ last.signal.action = "buy") =>
           RGe(last.cash_before, LastCost)
    /\ (last.kind = "step" /\ last.filled /\ last.signal.action = "sell") =>
           RGe(last.quantity_before, last.signal.size)

\* a buy was applied and left less cash than the same buy costs
C6_Witness ==
    /\ last.kind = "step" /\ last.filled /\ last.signal.action = "buy"
    /\ RLt(cash, LastCost)

Rejected ==
    /\ last.kind = "step"
    /\ \/ last.signal.action = "buy" /\ RGt(LastCost, last.cash_before)
       \/ last.signal.action = "sell" /\ RGt(last.signal.size, last.quantity_before)

\* C7: a rejected trade is a no-op.  After a step whose buy costs more than
\* the cash or whose sell exceeds the quantity held, cash, quantity, the
\* trades and the engine's active_positions are as before the step, nothing
\* was raised, and the step added exactly one equity point.
C7_RejectedNoOp ==
    Rejected =>
        /\ ~last.filled
        /\ cash = last.cash_before
        /\ quantity = last.quantity_before
        /\ trades = last.trades_before
        /\ Ledger = last.before.active_positions
        /\ pc # "fault"
        /\ Len(equity_curve) = last.points_before + 1

\* a sell of more than the quantity held, while something is held
C7_Witness ==
    /\ Rejected
    /\ last.signal.action = "sell"
    /\ RGt(last.quantity_before, Zero)
    /\ Ledger # <<>>

-----------------------------------------------------------------------------
(* Properties of generate_signal (SpecEngine), stated on the latest call:   *)
(* its snapshot is market, its portfolio last.cash and last.quantity, the   *)
(* engine it found last.before, its result last.signal.                     *)

Called == last.kind = "generate_signal"

CallPrice == I(market.current_price)

\* the window has ma_period prices and their mean is not 0
Warm == Len(market.prices) >= ma_period /\ SumInts(Last(market.prices, ma_period)) # 0

\* (price - mean) / mean, the mean being that of the last ma_period prices
CallDeviation ==
    LET mean == R(SumInts(Last(market.prices, ma_period)), ma_period)
    IN  RDiv(RSub(CallPrice, mean), mean)

CallHolding == RMul(last.quantity, CallPrice)

CallEquity == RAdd(last.cash, CallHolding)

CallExposure == RDiv(CallHolding, CallEquity)

CallNotional == RMul(last.signal.size, CallPrice)

\* C2: exposure cap.  generate_signal never returns buy when
\* quantity * price / (cash + quantity * price) >= 0.55.
C2_ExposureCap ==
    (Called /\ CallEquity # Zero /\ RGe(CallExposure, R(55, 100))) =>
        last.signal.action # "buy"

\* the cap is what stops the buy: cash for a trade, price a grid step down
C2_Witness ==
    /\ Called /\ CallEquity # Zero /\ RGe(CallExposure, R(55, 100))
    /\ RGe(last.cash, I(10))
    /\ last.signal = Hold("Max exposure reached")

\* C9: exit via target.  With at least ma_period prices, quantity > 0 and
\* deviation > take_profit_above_sma_pct the result is a sell of the whole
\* quantity, whatever the lots and the trailing high.
C9_ExitViaTarget ==
    (Called /\ Warm /\ RGt(last.quantity, Zero) /\ RGt(CallDeviation, R(1, 2))) =>
        /\ last.signal.action = "sell"
        /\ last.signal.size = last.quantity

\* the target fires with lots in the ledger and the trailing stop armed
C9_Witness ==
    /\ Called /\ Warm /\ RGt(last.quantity, Zero) /\ RGt(CallDeviation, R(1, 2))
    /\ last.signal.reason = "Mean Reversion: Target Hit"
    /\ last.before.active_positions # <<>>
    /\ RGt(TrailingHigh, RMul(last.before.active_positions[1].price,
                              RAdd(I(1), R(25, 1000))))

\* the size-weighted mean entry price of the lots the call found
CallAvgEntry ==
    LET lots == last.before.active_positions
    IN  RDiv(RSum([k \in 1..Len(lots) |-> RMul(lots[k].price, lots[k].size)]),
             RSum([k \in 1..Len(lots) |-> lots[k].size]))

\* the conditions of the trailing-stop exit, on the trailing high as the call
\* left it
CallStopFires ==
    /\ RGt(last.quantity, Zero)
    /\ last.before.active_positions # <<>>
    /\ RGt(TrailingHigh, RMul(CallAvgEntry, RAdd(I(1), trailing_stop_activation_pct)))
    /\ RLt(CallPrice, RMul(TrailingHigh, RSub(I(1), trailing_stop_callback_pct)))

\* min(totalEquity * positionSizeFrac, cash)
CallAmount ==
    LET wanted == RMul(CallEquity, R(275, 1000))
    IN  IF RLt(last.cash, wanted) THEN last.cash ELSE wanted

\* a positive equity of which the amount to buy is below the minimum, and the
\* other buy conditions the claim lists
C10_Case ==
    /\ Called /\ Warm
    /\ RGt(CallEquity, Zero)
    /\ RLt(CallAmount, I(10))
    /\ RLe(CallDeviation, R(-1, 100))
    /\ \A k \in 1..Len(last.before.active_positions) :
           LET lot == last.before.active_positions[k]
           IN  RGe(RDiv(RAbs(RSub(lot.price, CallPrice)), lot.price), R(1, 200))
    /\ RLt(CallExposure, R(55, 100))

C10_BuyNotional ==
    (Called /\ last.signal.action = "buy") =>
        /\ RGe(CallNotional, I(10))
        /\ RLe(CallNotional, last.cash)

\* 2^-49, the step between the floats from 8 up to 16
Step49 == RMul(R(1, 33554432), R(1, 16777216))

\* 9.999999999999998, the float next below 10: the notional of the buy of
\* 10.0 / 77 that a cash of MinTradeCash gets at a price of 77
JustBelowTen == RSub(I(10), Step49)

\* a buy is sized from an amount of at least 10 and at most cash; its notional
\* is that amount within the rounding of the division and the product
C10_BuyAmount ==
    (Called /\ last.signal.action = "buy") =>
        /\ RGe(CallAmount, I(10))
        /\ RLe(CallAmount, last.cash)
        /\ last.signal.size = RDiv(CallAmount, CallPrice)
        /\ RGe(CallNotional, JustBelowTen)
        /\ RLe(CallNotional, last.cash)

\* C10 as claimed: in that case the result is hold, "Insufficient cash"; and no
\* buy has a notional below 10 or above cash.
C10_MinNotionalAsClaimed ==
    /\ C10_Case => last.signal = Hold("Insufficient cash")
    /\ C10_BuyNotional

\* C10 as the code has it: in that case the result is hold, "Insufficient
\* cash", unless the trailing stop fires in the call, which comes first and
\* then the result is the sell of the whole quantity; no buy is sized from an
\* amount min(totalEquity * positionSizeFrac, cash) below 10 or above cash,
\* its size is that amount divided by the price, and its notional size * price
\* is at least 9.999999999999998 and at most cash.
C10_MinNotional ==
    /\ C10_Case =>
           IF CallStopFires
           THEN last.signal = Signal("sell", last.quantity, "Trailing Stop Hit")
           ELSE last.signal = Hold("Insufficient cash")
    /\ C10_BuyAmount

\* equity 36: 27.5% of it is 9.9, under the minimum
C10_Witness ==
    /\ C10_Case
    /\ last.cash = I(36)
    /\ last.signal = Hold("Insufficient cash")

\* C11: dead zone.  With at least ma_period prices, quantity 0 and
\* |deviation| < grid_step_pct the result is hold, whatever the cash; and a buy
\* is returned only when the price is at least one grid step below the mean.
C11_DeadZone ==
    /\ (Called /\ Warm /\ last.quantity = Zero
           /\ RLt(RAbs(CallDeviation), grid_step_pct)) =>
           last.signal.action = "hold"
    /\ (Called /\ last.signal.action = "buy") =>
           Warm /\ RLe(CallDeviation, RNeg(grid_step_pct))

\* below the mean by less than a grid step, nothing held, ample cash
C11_Witness ==
    /\ Called /\ Warm /\ last.quantity = Zero
    /\ RLt(CallDeviation, Zero) /\ RLt(RAbs(CallDeviation), grid_step_pct)
    /\ last.cash = I(10000)
    /\ last.before.active_positions = <<>>
    /\ last.signal.action = "hold"

\* C12: warm-up gate.  With fewer than ma_period prices generate_signal
\* returns hold and leaves the trailing high and the lots as they were,
\* whatever the portfolio and the engine.
C12_WarmUpGate ==
    (Called /\ Len(market.prices) < ma_period) =>
        /\ last.signal = Hold("")
        /\ View(heap, strategy["A"]) = last.before

\* a short window given to an engine with a lot and a trailing high, with a
\* portfolio holding nothing: a call past the gate would reset the high
C12_Witness ==
    /\ Called /\ Len(market.prices) < ma_period
    /\ last.quantity = Zero
    /\ last.before.active_positions # <<>>
    /\ RGt(TrailingHigh, Zero)

\* C15: no fatal action.  For a window of at least ma_period positive prices
\* and a portfolio with cash >= 0 and quantity >= 0, generate_signal returns
\* buy, sell or hold and raises nothing; with cash = 0 and quantity = 0 it
\* returns hold.
C15_NoFatalAction ==
    (/\ Called
     /\ Len(market.prices) >= ma_period
     /\ \A k \in 1..Len(market.prices) : market.prices[k] > 0
     /\ RGe(last.cash, Zero) /\ RGe(last.quantity, Zero)) =>
        /\ last.signal.action \in {"buy", "sell", "hold"}
        /\ (last.cash = Zero /\ last.quantity = Zero) => last.signal.action = "hold"

\* C17: trailing-stop exit and precedence.  With at least ma_period prices
\* the result is the trailing-stop sell of the whole quantity exactly when
\* quantity > 0, there are lots, the updated trailing high exceeds
\* avg_entry * (1 + activation) and the price is below trailing high *
\* (1 - callback); then nothing else is returned, and with no lots there is
\* no trailing-stop sell.
C17_TrailingStop ==
    (Called /\ Warm) =>
        (last.signal = Signal("sell", last.quantity, "Trailing Stop Hit") <=> CallStopFires)

\* the stop fires in a call in which the take-profit target is hit as well
C17_Witness ==
    /\ Called /\ Warm /\ CallStopFires
    /\ RGt(CallDeviation, R(1, 2))
    /\ last.signal = Signal("sell", last.quantity, "Trailing Stop Hit")

-----------------------------------------------------------------------------
(* Properties of the report (SpecReport).                                   *)

\* the greatest of a non-empty finite set of floats
RMaxOf(S) == CHOOSE x \in S : \A y \in S : RGe(x, y)

\* the maximum of the starting cash and equity_0..t (t counted from 1)
RunningPeak(curve, t) == RMaxOf({I(initial_cash)} \cup {curve[j] : j \in 1..t})

\* max over t of (runningPeak_t - equity_t) / runningPeak_t
MaxDrawdownOf(curve) ==
    RMaxOf({RDiv(RSub(RunningPeak(curve, t), curve[t]), RunningPeak(curve, t)) :
               t \in 1..Len(curve)})

\* C13: drawdown correctness.  The reported maximum drawdown of a recorded
\* equity curve is the maximum over t of (runningPeak_t - equity_t) /
\* runningPeak_t, runningPeak_t being the maximum of the starting cash and
\* equity_0..t.
C13_Drawdown ==
    report.outcome = "report" =>
        report.max_drawdown = MaxDrawdownOf(equity_curve)

\* starting cash 10000 and the curve 10000, 11000, 9000, 9500:
\* (11000 - 9000) / 11000
C13_Witness ==
    /\ report.outcome = "report"
    /\ equity_curve = <<I(10000), I(11000), I(9000), I(9500)>>
    /\ report.max_drawdown = R(2, 11)

-----------------------------------------------------------------------------
(* Properties of get_state / set_state (SpecRestore).                       *)

\* C5: state round trip.  The engine that imported the exported mapping
\* returns, call for call, the signals (action, size) the unrestored engine
\* returns on the same sequence of calls.
C5_RoundTrip ==
    pc = "restored" =>
        \A j \in 1..Min(Len(hist["A"]), Len(hist["B"])) :
            /\ hist["A"][j].output.action = hist["B"][j].output.action
            /\ hist["A"][j].output.size = hist["B"][j].output.size

\* the lots and the trailing high the mapping held when get_state returned it
Exported == last.before

\* the lots an engine holds after the on_trade calls among calls[1..k], when it
\* started from lots
RECURSIVE LotsAfter(_, _, _)
LotsAfter(lots, calls, k) ==
    IF k = 0 THEN lots
    ELSE LET inp == calls[k].input
             prev == LotsAfter(lots, calls, k - 1)
         IN  IF inp.op = "on_trade" /\ inp.signal.action = "buy"
             THEN Append(prev, Lot(inp.price, inp.size))
             ELSE IF inp.op = "on_trade" /\ inp.signal.action = "sell" THEN <<>>
             ELSE prev

\* C20: the exported state is a snapshot.  The mapping get_state returned
\* keeps the lots and the trailing high of the time of the export, whatever
\* is called on the engines afterwards; and the lots of the engine that
\* imported it are those of the export followed by its own fills only.
C20_Snapshot ==
    /\ pc \in {"exported", "restored"} =>
           /\ heap[state.mapping.active_positions] = Exported.active_positions
           /\ state.mapping.trailing_high = Exported.trailing_high
    /\ pc = "restored" =>
           heap[strategy["B"].active_positions] =
               LotsAfter(Exported.active_positions, hist["B"], Len(hist["B"]))

====
